---- MODULE Spec2Model ----
(***************************************************************************)
(* The schedule dashboard of src/f2025_streamlit.py as a state machine.    *)
(*                                                                         *)
(* One Streamlit session: the script runs top to bottom on every user      *)
(* interaction.  The state is the session state (data_loaded, the stored   *)
(* table df, the widget values kept under their keys) and the tables the   *)
(* last script run handed to the charts and metrics (out).                 *)
(*                                                                         *)
(* A cell is an option value: <<>> is a missing cell (NaN / None) and      *)
(* <<v>> a present one.  Text the code takes apart (Code, Type, Hall,      *)
(* College, Instructor, Title) is a sequence of one-character strings.     *)
(* A view of a table (a filtered DataFrame) is the ascending sequence of   *)
(* the index labels it keeps; labels are the row positions of df.          *)
(***************************************************************************)
EXTENDS Integers, Sequences, FiniteSets, TLC

VARIABLES data_loaded, df, sort_kind, unchecked1, credit_filter,
          unchecked2, include_special, out

vars == <<data_loaded, df, sort_kind, unchecked1, credit_filter,
          unchecked2, include_special, out>>

----------------------------------------------------------------------------
(* Cells *)

Null == <<>>

Some(v) == <<v>>

isna(c) == c = <<>>

notna(c) == c # <<>>

Val(c) == c[1]

----------------------------------------------------------------------------
(* Generic sequence helpers *)

RECURSIVE SumSeq(_)
SumSeq(s) == IF s = <<>> THEN 0 ELSE Head(s) + SumSeq(Tail(s))

Range(s) == {s[i] : i \in DOMAIN s}

Min2(a, b) == IF a <= b THEN a ELSE b

\* s[from..] (1-based), the empty sequence when from is past the end
Suffix(s, from) == [i \in 1..(Len(s) - from + 1) |-> s[i + from - 1]]

\* s[..upto]
Prefix(s, upto) == [i \in 1..Min2(upto, Len(s)) |-> s[i]]

\* n / d rounded to the nearest integer, a tie to the even one (np.round)
RoundHalfEven(n, d) ==
    LET q == n \div d
        r == n % d
    IN IF 2 * r < d THEN q
       ELSE IF 2 * r > d THEN q + 1
       ELSE IF q % 2 = 0 THEN q ELSE q + 1

\* the same sequence with its elements written out
Eager(s) == SubSeq(s, 1, Len(s))

\* The same table with every row and cell written out: a table built by a
\* function constructor is evaluated once here instead of at each use.
Evaluated(t) ==
    [columns |-> t.columns,
     rows |-> SubSeq([i \in DOMAIN t.rows |-> t.rows[i] @@ <<>>], 1, Len(t.rows))]

----------------------------------------------------------------------------
(* Characters *)

Digits == {"0", "1", "2", "3", "4", "5", "6", "7", "8", "9", "U0663"}

\* int() of a character \d matches; U0663 is ARABIC-INDIC DIGIT THREE,
\* which Python's \d matches on str patterns and int() reads as 3.
DigitValue(ch) ==
    CASE ch = "0" -> 0 [] ch = "1" -> 1 [] ch = "2" -> 2 [] ch = "3" -> 3
      [] ch = "4" -> 4 [] ch = "5" -> 5 [] ch = "6" -> 6 [] ch = "7" -> 7
      [] ch = "8" -> 8 [] ch = "9" -> 9 [] ch = "U0663" -> 3

Upper == <<"A", "B", "C", "D", "E", "F", "G", "H", "I", "J", "K", "L", "M",
           "N", "O", "P", "Q", "R", "S", "T", "U", "V", "W", "X", "Y", "Z">>

Lower == <<"a", "b", "c", "d", "e", "f", "g", "h", "i", "j", "k", "l", "m",
           "n", "o", "p", "q", "r", "s", "t", "u", "v", "w", "x", "y", "z">>

LowerChar(ch) ==
    IF \E k \in DOMAIN Upper : Upper[k] = ch
    THEN Lower[CHOOSE k \in DOMAIN Upper : Upper[k] = ch]
    ELSE ch

\* str.lower()
lower(s) == [i \in DOMAIN s |-> LowerChar(s[i])]

\* the substring test of str.contains(pat, regex on a literal pattern)
Contains(s, pat) ==
    \E k \in 0..(Len(s) - Len(pat)) :
        \A j \in 1..Len(pat) : s[k + j] = pat[j]

Whitespace == {" "}

RECURSIVE lstrip(_)
lstrip(s) == IF s # <<>> /\ Head(s) \in Whitespace THEN lstrip(Tail(s)) ELSE s

RECURSIVE rstrip(_)
rstrip(s) ==
    IF s # <<>> /\ s[Len(s)] \in Whitespace THEN rstrip(Prefix(s, Len(s) - 1)) ELSE s

\* str.strip()
strip(s) == lstrip(rstrip(s))

\* the position of the first sep in s, Len(s) + 1 when there is none
Find(s, sep) ==
    IF \E p \in DOMAIN s : s[p] = sep
    THEN CHOOSE p \in DOMAIN s : s[p] = sep /\ \A q \in 1..(p - 1) : s[q] # sep
    ELSE Len(s) + 1

\* the quotient n / d of two integers, d > 0, in lowest terms
Quotient(n, d) ==
    LET g == CHOOSE k \in 1..d : /\ n % k = 0 /\ d % k = 0
                                 /\ \A m \in (k + 1)..d : ~ (n % m = 0 /\ d % m = 0)
    IN [num |-> n \div g, den |-> d \div g]

AsciiDigits == <<"0", "1", "2", "3", "4", "5", "6", "7", "8", "9">>

RECURSIVE NumeralValue(_)
\* the number a non-empty string of ASCII digits writes
NumeralValue(s) ==
    IF Len(s) = 1 THEN DigitValue(s[1])
    ELSE 10 * NumeralValue(Prefix(s, Len(s) - 1)) + DigitValue(s[Len(s)])

\* pd.to_numeric(errors='coerce') of a text: the number of a text made of
\* ASCII digits, missing for a text that is empty or holds any other
\* character of the model's alphabet (a letter, '/', '-', ':', a blank
\* inside)
ParseNumber(s) ==
    IF s # <<>> /\ \A p \in DOMAIN s : s[p] \in Range(AsciiDigits)
    THEN Some(NumeralValue(s))
    ELSE Null

\* the text astype(str) gives a missing cell
\* str(n) of an integer n >= 0
RECURSIVE Decimal(_)
Decimal(n) ==
    IF n < 10 THEN <<AsciiDigits[n + 1]>>
    ELSE Decimal(n \div 10) \o <<AsciiDigits[(n % 10) + 1]>>

NanText == <<"n", "a", "n">>

astype_str(c) == IF isna(c) THEN NanText ELSE Val(c)

----------------------------------------------------------------------------
(* Tables.  A table is [columns, rows]; a row maps each column name to a   *)
(* cell.                                                                   *)

CategoricalColumns == {"Code", "Sec.", "Days", "Days1", "Days2", "Days3",
                       "Days4", "Days5", "College", "Instructor", "Hall",
                       "Type"}

NumericColumns == {"Reg. Stud.", "Limit", "Hall capacity", "Duration",
                   "TotalDuration", "KIMEP Credit", "ECTS Credit",
                   "Late Registration"}

\* df[col].astype(str).replace('nan', np.nan): a missing cell prints as
\* 'nan' and is made missing again, and so is a cell whose text is 'nan'.
\* astype(str) alone
TextWithoutReplace(c) == Some(astype_str(c))

to_categorical(c) == IF astype_str(c) = NanText THEN Null ELSE Some(astype_str(c))

\* A cell of the uploaded sheet that is not of the kind its column is read
\* for is written with its kind: TextCell(s) is a text cell in a column of
\* numbers, NumberCell(n) a number cell in a column of text.
TextCell(s) == <<s, "text">>

NumberCell(n) == <<n, "number">>

OfOtherKind(c) == Len(c) = 2

\* pd.to_numeric(errors='coerce'): a number is kept, a missing cell stays
\* missing, a text cell becomes the number it spells or, when it spells
\* none, missing.
to_numeric(c) ==
    IF isna(c) THEN Null
    ELSE IF OfOtherKind(c) THEN ParseNumber(c[1])
    ELSE Some(Val(c))

\* the dtype of a column read for text: float64 when its cells are numbers
\* and missing cells only, with at least one missing
ReadAsFloat(file, col) ==
    /\ \E i \in DOMAIN file.rows : isna(file.rows[i][col])
    /\ \A i \in DOMAIN file.rows :
          isna(file.rows[i][col]) \/ OfOtherKind(file.rows[i][col])

\* the text cell a number cell prints as under astype(str): '25' in an
\* int64 or object column, '25.0' in a float64 column; other cells as they
\* are
Printed(file, col, c) ==
    IF OfOtherKind(c)
    THEN Some(Decimal(c[1]) \o (IF ReadAsFloat(file, col) THEN <<".", "0">> ELSE <<>>))
    ELSE c

load_data(file) ==
    Evaluated(
    [columns |-> file.columns,
     rows |-> [i \in DOMAIN file.rows |->
                 [col \in file.columns |->
                    IF col \in CategoricalColumns
                    THEN to_categorical(Printed(file, col, file.rows[i][col]))
                    ELSE IF col \in NumericColumns
                    THEN to_numeric(file.rows[i][col])
                    ELSE file.rows[i][col]]]])

\* the index labels of a table, in order
Labels(t) == [i \in DOMAIN t.rows |-> i]

\* the distinct non-missing values of a column over a view, as a set
Unique(t, view, col) ==
    {t.rows[view[k]][col] : k \in DOMAIN view} \ {Null}

\* Series.nunique() over a view: missing values are not counted
nunique(t, view, col) == Cardinality(Unique(t, view, col))

----------------------------------------------------------------------------
(* Tab 1, key metrics: course levels *)

RECURSIVE FirstDigitFrom(_, _)
\* re.search(r'\d', s): the leftmost position at or after p holding a digit,
\* 0 when there is none
FirstDigitFrom(s, p) ==
    IF p > Len(s) THEN 0
    ELSE IF s[p] \in Digits THEN p
    ELSE FirstDigitFrom(s, p + 1)

LastDigitOf(code) ==
    IF isna(code) THEN Null
    ELSE LET s == Val(code)
             ps == {p \in DOMAIN s : s[p] \in Digits}
         IN IF ps = {} THEN Null
            ELSE Some(DigitValue(s[CHOOSE p \in ps : \A q \in ps : q <= p]))

extract_first_digit(code) ==
    IF isna(code) THEN Null
    ELSE LET p == FirstDigitFrom(Val(code), 1)
         IN IF p = 0 THEN Null ELSE Some(DigitValue(Val(code)[p]))

\* df['First_Digit'] = df['Code'].apply(extract_first_digit): the column is
\* written into the table the session holds.
WithFirstDigit(t) ==
    Evaluated(
    [columns |-> t.columns \cup {"First_Digit"},
     rows |-> [i \in DOMAIN t.rows |->
                 [col \in t.columns \cup {"First_Digit"} |->
                    IF col = "First_Digit"
                    THEN extract_first_digit(t.rows[i]["Code"])
                    ELSE t.rows[i][col]]]])

KeepAllRows(t, view, subset) == view

\* DataFrame.drop_duplicates(subset=[col]): the first row of every value is
\* kept; missing values compare equal to each other.
drop_duplicates(t, view, subset) ==
    SelectSeq(view, LAMBDA i :
        ~ \E k \in DOMAIN view :
            view[k] < i /\ t.rows[view[k]][subset] = t.rows[i][subset])

IsUndergraduate(fd) == notna(fd) /\ Val(fd) \in {1, 2, 3, 4}

IsGraduate(fd) == notna(fd) /\ Val(fd) \in {5, 6, 7, 8, 9}

IsFoundation(fd) == notna(fd) /\ Val(fd) = 0

\* t is the table with First_Digit written
df_unique(t) ==
    SelectSeq(drop_duplicates(t, Labels(t), "Index"),
              LAMBDA i : notna(t.rows[i]["First_Digit"]))

\* the rows of the filtered table of tab 1 as a table of their own
FilteredTable(t, filtered) ==
    [columns |-> t.columns, rows |-> [k \in DOMAIN filtered |-> t.rows[filtered[k]]]]

\* the table the key metrics of tab 1 read: df, at lines 79-103, before the
\* College filter of line 170 builds filtered_df
df_at_key_metrics(t, filtered) == t

LevelMetrics(t) ==
    LET u == df_unique(t)
    IN [df_unique |-> u,
        total_courses_count |-> Len(u),
        undergrad_count_new |->
            Len(SelectSeq(u, LAMBDA i : IsUndergraduate(t.rows[i]["First_Digit"]))),
        master_count |->
            Len(SelectSeq(u, LAMBDA i : IsGraduate(t.rows[i]["First_Digit"]))),
        foundation_count |->
            Len(SelectSeq(u, LAMBDA i : IsFoundation(t.rows[i]["First_Digit"])))]

----------------------------------------------------------------------------
(* College filter (tab 1 and tab 2 build it the same way) *)

\* the colleges a checkbox is drawn for
options_for_checkbox(t) == Unique(t, Labels(t), "College")

\* the checked colleges: every checkbox starts checked
selected_colleges_list(t, unchecked) ==
    {Val(c) : c \in options_for_checkbox(t)} \ unchecked

\* the filter with the rows that have no College let through
KeepRowsWithoutCollege(t, unchecked) ==
    IF "College" \in t.columns
    THEN IF selected_colleges_list(t, unchecked) # {}
         THEN SelectSeq(Labels(t), LAMBDA i :
                  isna(t.rows[i]["College"])
                  \/ Val(t.rows[i]["College"]) \in selected_colleges_list(t, unchecked))
         ELSE <<>>
    ELSE Labels(t)

college_filter(t, unchecked) ==
    IF "College" \in t.columns
    THEN IF selected_colleges_list(t, unchecked) # {}
         THEN SelectSeq(Labels(t), LAMBDA i :
                  notna(t.rows[i]["College"])
                  /\ Val(t.rows[i]["College"]) \in selected_colleges_list(t, unchecked))
         ELSE <<>>
    ELSE Labels(t)

----------------------------------------------------------------------------
(* groupby and sort_values *)

\* code-point order of the characters the model uses
CharOrder == <<" ", "-", "/", "0", "1", "2", "3", "4", "5", "6", "7", "8", "9">>
             \o Upper \o Lower \o <<"U0663">>

CharRank(ch) == CHOOSE k \in DOMAIN CharOrder : CharOrder[k] = ch

RECURSIVE StrLessFrom(_, _, _)
StrLessFrom(a, b, k) ==
    IF k > Len(b) THEN FALSE
    ELSE IF k > Len(a) THEN TRUE
    ELSE IF a[k] = b[k] THEN StrLessFrom(a, b, k + 1)
    ELSE CharRank(a[k]) < CharRank(b[k])

\* a < b for Python strings
StrLess(a, b) == StrLessFrom(a, b, 1)

RECURSIVE KeyLessFrom(_, _, _)
KeyLessFrom(a, b, k) ==
    IF k > Len(a) THEN FALSE
    ELSE IF a[k] = b[k] THEN KeyLessFrom(a, b, k + 1)
    ELSE StrLess(a[k], b[k])

\* a < b for group keys: a key is a tuple of strings, compared left to right
KeyLess(a, b) == KeyLessFrom(a, b, 1)

\* the key of row i under groupby(by); by is a tuple of column names
KeyOf(t, i, by) == [k \in DOMAIN by |-> t.rows[i][by[k]]]

\* groupby drops the rows with a missing value in a key column
HasKey(t, i, by) == \A k \in DOMAIN by : notna(t.rows[i][by[k]])

GroupKeys(t, view, by) ==
    {[k \in DOMAIN by |-> Val(KeyOf(t, view[n], by)[k])] :
        n \in {m \in DOMAIN view : HasKey(t, view[m], by)}}

\* sorted with x put in its place
InsertKey(sorted, x) ==
    LET before == SelectSeq(sorted, LAMBDA y : KeyLess(y, x))
    IN before \o <<x>> \o Suffix(sorted, Len(before) + 1)

RECURSIVE SortedKeys(_)
\* the group keys in the order groupby(sort=True) lists them
SortedKeys(keys) ==
    IF keys = {} THEN <<>>
    ELSE LET x == CHOOSE y \in keys : TRUE
         IN InsertKey(SortedKeys(keys \ {x}), x)

\* the rows of a view that fall in the group of key
GroupRows(t, view, by, key) ==
    SelectSeq(view, LAMBDA i :
        HasKey(t, i, by)
        /\ [k \in DOMAIN by |-> Val(KeyOf(t, i, by)[k])] = key)

\* Series.sum() of a numeric column over a view: missing cells are skipped
\* and an empty sum is 0
sum(t, view, col) ==
    SumSeq([k \in DOMAIN view |->
              IF isna(t.rows[view[k]][col]) THEN 0 ELSE Val(t.rows[view[k]][col])])

\* groupby(by)[col].sum().reset_index()
groupby_sum(t, view, by, col) ==
    LET keys == SortedKeys(GroupKeys(t, view, by))
    IN Eager([g \in DOMAIN keys |->
          [key |-> keys[g], value |-> sum(t, GroupRows(t, view, by, keys[g]), col)]])

\* groupby(by)[col].nunique().reset_index()
groupby_nunique(t, view, by, col) ==
    LET keys == SortedKeys(GroupKeys(t, view, by))
    IN Eager([g \in DOMAIN keys |->
          [key |-> keys[g], value |-> nunique(t, GroupRows(t, view, by, keys[g]), col)]])

\* The order two rows with equal values get from sort_values.  The calls
\* pass no kind, so pandas sorts with its default 'quicksort', which is not
\* a stable sort: the library build decides the order of equal values.  The
\* build is one of those in SortKinds for the whole session.
SortKinds == {"stable", "reversed"}

\* row j of g goes before row i of g in the descending order
Before(g, kind, j, i) ==
    \/ g[j].value > g[i].value
    \/ g[j].value = g[i].value /\ (IF kind = "stable" THEN j < i ELSE j > i)

\* the positions of g, sorted, with position i put in its place
InsertPosition(g, kind, sorted, i) ==
    LET before == SelectSeq(sorted, LAMBDA j : Before(g, kind, j, i))
    IN before \o <<i>> \o Suffix(sorted, Len(before) + 1)

RECURSIVE SortedPositions(_, _, _)
\* the first n positions of g in descending order of value
SortedPositions(g, kind, n) ==
    IF n = 0 THEN <<>>
    ELSE InsertPosition(g, kind, SortedPositions(g, kind, n - 1), n)

\* g.sort_values(value, ascending=False)
sort_values_descending(g, kind) ==
    LET order == SortedPositions(g, kind, Len(g))
    IN Eager([r \in DOMAIN g |-> g[order[r]]])

\* .head(n)
head(g, n) == Prefix(g, n)

TopGeneral == 10

TopLate == 10

TopInstructor == 15

TopRooms == 10

----------------------------------------------------------------------------
(* Tab 1 queries on filtered_df *)

GenText == <<"g", "e", "n">>

gen_courses(t, filtered) ==
    SelectSeq(filtered, LAMBDA i :
        notna(t.rows[i]["College"]) /\ lower(Val(t.rows[i]["College"])) = GenText)

\* Some(table) when the chart is drawn, Null when the query is skipped or
\* reports that no general education course was found
gen_top(t, filtered, kind) ==
    IF {"College", "Reg. Stud.", "Title"} \subseteq t.columns
       /\ Len(gen_courses(t, filtered)) > 0
    THEN Some(head(sort_values_descending(
                  groupby_sum(t, gen_courses(t, filtered), <<"Code", "Title">>,
                              "Reg. Stud."), kind), TopGeneral))
    ELSE Null

\* (value / total * 100).round(1) in tenths of a percent; 0 / 0 is NaN
\* the percentage cut to one decimal instead of rounded
PercentageCut(value, total) ==
    IF total = 0 THEN Null ELSE Some((value * 1000) \div total)

\* (value / total * 100).round(1) in tenths of a percent; NaN (missing)
\* when the total is 0
Percentage(value, total) ==
    IF total = 0 THEN Null ELSE Some(RoundHalfEven(value * 1000, total))

\* enrolled students per College, largest first, with each College's share
college_enroll(t, filtered, kind) ==
    IF {"College", "Reg. Stud."} \subseteq t.columns
    THEN LET g == sort_values_descending(
                      groupby_sum(t, filtered, <<"College">>, "Reg. Stud."), kind)
             total == SumSeq([r \in DOMAIN g |-> g[r].value])
         IN Some(Eager([r \in DOMAIN g |->
                    [key |-> g[r].key, value |-> g[r].value,
                     Percentage |-> Percentage(g[r].value, total)]]))
    ELSE Null

late_reg(t, filtered, kind) ==
    IF {"Late Registration", "Code", "Title"} \subseteq t.columns
    THEN Some(head(sort_values_descending(
                  groupby_sum(t, filtered, <<"Code", "Title">>,
                              "Late Registration"), kind), TopLate))
    ELSE Null

----------------------------------------------------------------------------
(* Tab 1, course distribution by day *)

DayColumnNames == <<"Days1", "Days2", "Days3", "Days4", "Days5">>

days_columns(t) == SelectSeq(DayColumnNames, LAMBDA c : c \in t.columns)

day_order == << <<"M">>, <<"T">>, <<"W">>, <<"T", "h">>, <<"F">> >>

\* the observations one row appends to day_data: one per day column whose
\* cell is present, each with the row's Reg. Stud. (0 when missing)
RowObservations(t, i) ==
    LET cols == SelectSeq(days_columns(t), LAMBDA c : notna(t.rows[i][c]))
    IN [k \in DOMAIN cols |->
          [Day |-> Val(t.rows[i][cols[k]]),
           Students |-> IF notna(t.rows[i]["Reg. Stud."])
                        THEN Val(t.rows[i]["Reg. Stud."]) ELSE 0]]

FirstDayOnly(t, i) == Prefix(RowObservations(t, i), 1)

RowDayData(t, i) == RowObservations(t, i)

RECURSIVE day_data(_, _)
day_data(t, view) ==
    IF view = <<>> THEN <<>>
    ELSE RowDayData(t, Head(view)) \o day_data(t, Tail(view))

\* pd.Categorical(Day, categories=day_order): a token outside day_order
\* becomes a missing Day; the row of the summary stays
Categorical(day) == IF day \in Range(day_order) THEN Some(day) ELSE Null

\* day_summary: one row per distinct Day token of day_data with its count
\* and its sum of Students, sorted by the weekday order, the rows whose Day
\* is outside day_order last
day_summary(obs) ==
    LET tokens == {obs[k].Day : k \in DOMAIN obs}
        known == SelectSeq(day_order, LAMBDA d : d \in tokens)
        other == SortedKeys({<<d>> : d \in tokens \ Range(day_order)})
        order == known \o [k \in DOMAIN other |-> other[k][1]]
    IN [r \in DOMAIN order |->
          LET mine == SelectSeq(obs, LAMBDA o : o.Day = order[r])
          IN [Day |-> Categorical(order[r]),
              Classes |-> Len(mine),
              TotalStudents |-> SumSeq([k \in DOMAIN mine |-> mine[k].Students])]]

\* Some([day_data, day_summary]) when the charts are drawn
day_distribution(t, filtered) ==
    IF days_columns(t) # <<>> /\ "Reg. Stud." \in t.columns
       /\ day_data(t, filtered) # <<>>
    THEN Some([day_data |-> day_data(t, filtered),
               day_summary |-> day_summary(day_data(t, filtered))])
    ELSE Null

----------------------------------------------------------------------------
(* Tab 1, peak time analysis: credit filter and class length *)

CreditChoices == {"All", "2 Credits", "3 Credits"}

temp_df(t, filtered, credit) ==
    IF credit = "2 Credits"
    THEN SelectSeq(filtered, LAMBDA i : t.rows[i]["KIMEP Credit"] = Some(2))
    ELSE IF credit = "3 Credits"
    THEN SelectSeq(filtered, LAMBDA i : t.rows[i]["KIMEP Credit"] = Some(3))
    ELSE filtered

\* Time.str.split('-').str[0].str.strip(), then .str.split(':').str[0] and
\* pd.to_numeric(errors='coerce'): the hour a class starts at, missing when
\* Time is missing or the text before the first ':' is not a number
Start_Hour(time) ==
    IF isna(time) THEN Null
    ELSE LET Start_Time == strip(Prefix(Val(time), Find(Val(time), "-") - 1))
         IN ParseNumber(Prefix(Start_Time, Find(Start_Time, ":") - 1))

FirstHour == 8

LastHour == 20

\* classes by start hour: the rows of temp_df that start between FirstHour
\* and LastHour, counted per hour, in hour order
time_dist(t, temp) ==
    IF "Time" \in t.columns
    THEN LET hour == Eager([k \in DOMAIN temp |-> Start_Hour(t.rows[temp[k]]["Time"])])
             hours == SelectSeq([h \in 1..(LastHour - FirstHour + 1) |-> FirstHour + h - 1],
                                LAMBDA h : Some(h) \in Range(hour))
         IN Some([k \in DOMAIN hours |->
                    [Start_Hour |-> hours[k],
                     Classes |-> Len(SelectSeq(hour, LAMBDA c : c = Some(hours[k])))]])
    ELSE Null

BackText == <<"b", "a", "c", "k">>

\* Type.astype(str).str.contains('back', case=False, na=False)
Is_BackToBack(type) == Contains(lower(astype_str(type)), BackText)

\* the codes of the back-to-back rows; a missing Code is among them as NaN
\* and equals the Code of no row
back_to_back_codes(t, view) ==
    {t.rows[view[k]]["Code"] :
        k \in {m \in DOMAIN view : Is_BackToBack(t.rows[view[m]]["Type"])}}

SkipLaterFlaggedOnly(t, view, codes, i) ==
    /\ notna(t.rows[i]["Code"])
    /\ Is_BackToBack(t.rows[i]["Type"])
    /\ \E k \in DOMAIN view :
          /\ view[k] < i
          /\ t.rows[view[k]]["Code"] = t.rows[i]["Code"]
          /\ Is_BackToBack(t.rows[view[k]]["Type"])

\* the Skip mark of row i, codes being the back-to-back codes of the view:
\* its Code is one of them and i is not the first row of the view with
\* that Code
Skip(t, view, codes, i) ==
    /\ notna(t.rows[i]["Code"])
    /\ t.rows[i]["Code"] \in codes
    /\ \E k \in DOMAIN view :
          view[k] < i /\ t.rows[view[k]]["Code"] = t.rows[i]["Code"]

BackToBackMinutes == 150

RawDuration(row) == row["Duration"]

\* 150 if row['Is_BackToBack'] else row['Duration']
Effective_Duration(row) ==
    IF Is_BackToBack(row["Type"]) THEN Some(BackToBackMinutes) ELSE row["Duration"]

ClassLengths == <<50, 75, 150>>

\* Some(record) when Duration and Type are columns: the rows kept after the
\* Skip filter, their effective durations, the rows counted and the count
\* of every class length that occurs
\* every effective duration that is present
AnyDuration(eff) == SelectSeq(eff, LAMBDA e : notna(e))

\* df_duration['Effective_Duration'].isin([50, 75, 150])
isin_class_lengths(eff) ==
    SelectSeq(eff, LAMBDA e : notna(e) /\ Val(e) \in Range(ClassLengths))

duration_distribution(t, temp) ==
    IF {"Duration", "Type"} \subseteq t.columns
    THEN LET codes == back_to_back_codes(t, temp)
             kept == SelectSeq(temp, LAMBDA i : ~ Skip(t, temp, codes, i))
             eff == Eager([k \in DOMAIN kept |-> Effective_Duration(t.rows[kept[k]])])
             counted == isin_class_lengths(eff)
             lengths == SelectSeq(ClassLengths, LAMBDA d : Some(d) \in Range(counted))
             Count(d) == Len(SelectSeq(counted, LAMBDA e : e = Some(d)))
             total_classes == SumSeq([k \in DOMAIN lengths |-> Count(lengths[k])])
         IN Some([temp |-> temp,
                  kept |-> kept,
                  Effective_Duration |-> eff,
                  duration_counts |->
                      IF Len(counted) > 0
                      THEN Some([k \in DOMAIN lengths |->
                                   [Duration |-> lengths[k],
                                    Count |-> Count(lengths[k]),
                                    Percentage |-> Quotient(Count(lengths[k]) * 100,
                                                            total_classes)]])
                      ELSE Null])
    ELSE Null

----------------------------------------------------------------------------
(* Tab 2: filters and teaching load *)

EmptyTime == <<"0", "0", ":", "0", "0", " ", "-", " ", "0", "0", ":", "0", "0">>

\* the College filter followed by the empty-time filter
tab2_filtered_df(t, unchecked, include) ==
    LET f == college_filter(t, unchecked)
    IN IF f # <<>> /\ "Time" \in t.columns /\ ~ include
       THEN SelectSeq(f, LAMBDA i : t.rows[i]["Time"] # Some(EmptyTime))
       ELSE f

\* the key metrics of tab 2: Some(record) when the filtered table has rows
\* and an Instructor column; total_courses is missing without an Index
\* column, the students per instructor without a Reg. Stud. column
tab2_metrics(t, filtered) ==
    IF filtered # <<>> /\ "Instructor" \in t.columns
    THEN Some([total_instructors |-> nunique(t, filtered, "Instructor"),
               total_courses |-> IF "Index" \in t.columns
                                 THEN Some(nunique(t, filtered, "Index")) ELSE Null,
               total_students_per_instructor |->
                   IF "Reg. Stud." \in t.columns
                   THEN Some(groupby_sum(t, filtered, <<"Instructor">>, "Reg. Stud."))
                   ELSE Null])
    ELSE Null

\* instructors per College
college_instructor_count(t, filtered) ==
    IF {"College", "Instructor"} \subseteq t.columns
    THEN Some(groupby_nunique(t, filtered, <<"College">>, "Instructor"))
    ELSE Null

instructor_load(t, filtered, kind) ==
    IF filtered # <<>> /\ {"Instructor", "Index"} \subseteq t.columns
    THEN Some(head(sort_values_descending(
                  groupby_nunique(t, filtered, <<"Instructor">>, "Index"), kind),
                  TopInstructor))
    ELSE Null

instructor_students(t, filtered, kind) ==
    IF filtered # <<>> /\ {"Instructor", "Reg. Stud."} \subseteq t.columns
    THEN Some(head(sort_values_descending(
                  groupby_sum(t, filtered, <<"Instructor">>, "Reg. Stud."), kind),
                  TopInstructor))
    ELSE Null

----------------------------------------------------------------------------
(* Tab 3: buildings, room usage, occupancy *)

\* s.split('/')[1]: the text between the first '/' and the next one (or the
\* end), missing when s has no '/'
SplitSecond(s) ==
    IF Find(s, "/") > Len(s) THEN Null
    ELSE LET rest == Suffix(s, Find(s, "/") + 1)
         IN Some(Prefix(rest, Find(rest, "/") - 1))

\* Hall.astype(str).str.split('/').str[1].str.strip()
Building(hall) ==
    LET seg == SplitSecond(astype_str(hall))
    IN IF isna(seg) THEN Null ELSE Some(strip(Val(seg)))

\* the table with the Building column added (a copy; df is not changed)
WithBuilding(t) ==
    Evaluated(
    [columns |-> t.columns \cup {"Building"},
     rows |-> [i \in DOMAIN t.rows |->
                 [col \in t.columns \cup {"Building"} |->
                    IF col = "Building" THEN Building(t.rows[i]["Hall"])
                    ELSE t.rows[i][col]]]])

\* the rows with a Hall that holds a digit and with a Hall capacity
valid_capacity_df(t) ==
    SelectSeq(Labels(t), LAMBDA i :
        /\ notna(t.rows[i]["Hall"])
        /\ notna(t.rows[i]["Hall capacity"])
        /\ \E p \in DOMAIN Val(t.rows[i]["Hall"]) : Val(t.rows[i]["Hall"])[p] \in Digits)

\* the room metrics of tab 3: Some(record) when there is a valid row
room_metrics(t) ==
    IF {"Hall", "Hall capacity"} \subseteq t.columns /\ valid_capacity_df(t) # <<>>
    THEN LET valid == valid_capacity_df(t)
             caps == {Val(t.rows[i]["Hall capacity"]) : i \in Range(valid)}
         IN Some([valid |-> valid,
                  total_rooms |-> nunique(t, valid, "Hall"),
                  min_capacity |-> CHOOSE c \in caps : \A d \in caps : c <= d,
                  max_capacity |-> CHOOSE c \in caps : \A d \in caps : d <= c])
    ELSE Null

\* rooms per building
building_room_count(t) ==
    IF "Hall" \in t.columns
    THEN LET b == WithBuilding(t)
             valid == SelectSeq(Labels(b), LAMBDA i :
                          notna(b.rows[i]["Hall"]) /\ notna(b.rows[i]["Building"]))
         IN Some([Building |-> Eager([i \in DOMAIN b.rows |-> b.rows[i]["Building"]]),
                  valid |-> valid,
                  counts |-> groupby_nunique(b, valid, <<"Building">>, "Hall")])
    ELSE Null

\* classes per building
building_class_count(t) ==
    IF {"Hall", "Index"} \subseteq t.columns
    THEN LET b == WithBuilding(t)
             valid == SelectSeq(Labels(b), LAMBDA i :
                          /\ notna(b.rows[i]["Hall"])
                          /\ notna(b.rows[i]["Building"])
                          /\ notna(b.rows[i]["Index"]))
         IN Some([valid |-> valid,
                  counts |-> groupby_nunique(b, valid, <<"Building">>, "Index")])
    ELSE Null

room_usage(t, kind) ==
    IF {"Hall", "Index"} \subseteq t.columns
    THEN Some(head(sort_values_descending(
                  groupby_nunique(t, Labels(t), <<"Hall">>, "Index"), kind),
                  TopRooms))
    ELSE Null

RateWithoutZeroGuard(reg, cap) ==
    IF isna(cap) \/ isna(reg) THEN 0
    ELSE IF Val(cap) = 0 THEN 1000
    ELSE RoundHalfEven(Val(reg) * 1000, Val(cap))

\* Occupancy_Rate in tenths of a percent:
\* (Reg. Stud. / Hall capacity.replace(0, NA) * 100).fillna(0).round(1)
\* A capacity of 0 is made missing, a missing operand makes the quotient
\* missing, and fillna(0) turns every missing quotient into 0.
Occupancy_Rate(reg, cap) ==
    IF isna(cap) \/ Val(cap) = 0 \/ isna(reg) THEN 0
    ELSE RoundHalfEven(Val(reg) * 1000, Val(cap))

\* Some(record) when the three metrics are drawn
\* the occupancy analysis on the whole table
OccupancyOfWholeTable(t, in_tab1, in_tab2) == Labels(t)

\* df_for_occupancy = filtered_df.copy(): filtered_df is the name tab 1 and
\* tab 2 both assign, and tab 2 assigns it last
df_for_occupancy(t, in_tab1, in_tab2) == in_tab2

occupancy(t, filtered) ==
    IF {"Reg. Stud.", "Hall capacity", "Index"} \subseteq t.columns
       /\ filtered # <<>>
    THEN LET rate(i) == Occupancy_Rate(t.rows[i]["Reg. Stud."],
                                       t.rows[i]["Hall capacity"])
         IN Some([rows |-> filtered,
                  Occupancy_Rate |-> [k \in DOMAIN filtered |-> rate(filtered[k])],
                  under_50 |-> nunique(t, SelectSeq(filtered,
                                  LAMBDA i : rate(i) < 500), "Index"),
                  optimal |-> nunique(t, SelectSeq(filtered,
                                  LAMBDA i : rate(i) >= 500 /\ rate(i) < 900), "Index"),
                  over_90 |-> nunique(t, SelectSeq(filtered,
                                  LAMBDA i : rate(i) >= 900), "Index")])
    ELSE Null

----------------------------------------------------------------------------
(* Export *)

\* the columns of a sheet from left to right; a column assigned later
\* (First_Digit) is appended
ColumnOrder ==
    <<"Index", "Code", "Title", "College", "Instructor", "Days1", "Days2",
      "Days3", "Days4", "Days5", "Time", "Hall", "Hall capacity", "Reg. Stud.",
      "Duration", "Type", "Late Registration", "KIMEP Credit", "First_Digit">>

\* the columns whose cells are numbers
NumberColumns == NumericColumns \cup {"Index", "First_Digit"}

\* a column of numbers with a missing cell is a float64 column
IsFloat(t, col) == \E i \in DOMAIN t.rows : isna(t.rows[i][col])

\* one field of a line: nothing for a missing cell, the text of a text cell,
\* the numeral of a number, with '.0' in a float64 column
Field(t, col, c) ==
    IF isna(c) THEN <<>>
    ELSE IF col \in NumberColumns
    THEN Decimal(Val(c)) \o (IF IsFloat(t, col) THEN <<".", "0">> ELSE <<>>)
    ELSE Val(c)

\* DataFrame.to_csv(index=False) of the rows of view: the header line,
\* which names the columns, then one line per row; a line is the sequence
\* of its fields
to_csv(t, view) ==
    LET header == SelectSeq(ColumnOrder, LAMBDA col : col \in t.columns)
    IN [header |-> header,
        lines |-> Eager([r \in DOMAIN view |->
                           [k \in DOMAIN header |->
                              Field(t, header[k], t.rows[view[r]][header[k]])]])]

\* the download button's data when the filtered table of tab 2 is filtered
CsvOfFilteredTable(t, filtered) == to_csv(t, filtered)

\* csv_data = df.to_csv(index=False): the whole table, whatever the
\* filtered table of tab 2 is
csv_data(t, filtered) == to_csv(t, Labels(t))

----------------------------------------------------------------------------
(* One run of the script body on the stored table *)

\* The line at which the run stops with an exception, 0 when it runs to the
\* end: df['Code'] and df['Index'] are read unguarded (KeyError), st.columns
\* is given 0 when College is a column without a single present value
\* (StreamlitAPIException), and .str is applied to Time, which is a float
\* column when every Time cell of a non-empty sheet is missing
\* (AttributeError).
raised_at(t) ==
    IF "Code" \notin t.columns THEN 75
    ELSE IF "Index" \notin t.columns THEN 79
    ELSE IF "College" \in t.columns /\ options_for_checkbox(t) = {} THEN 159
    ELSE IF /\ "Time" \in t.columns
            /\ t.rows # <<>>
            /\ \A i \in DOMAIN t.rows : isna(t.rows[i]["Time"])
    THEN 363
    ELSE 0

\* the statement at line is completed in a run on t
Ran(t, line) == raised_at(t) = 0 \/ line < raised_at(t)

\* the radio's value, 'All' when there is no KIMEP Credit column
credit_choice(t, credit) == IF "KIMEP Credit" \in t.columns THEN credit ELSE "All"

NoOutput ==
    [body |-> FALSE, raised_at |-> 0, level |-> Null, filtered_df |-> Null,
     gen_top |-> Null, day |-> Null, duration |-> Null, late_reg |-> Null,
     tab2_filtered_df |-> Null, instructor_load |-> Null,
     instructor_students |-> Null, building_room_count |-> Null,
     room_usage |-> Null, building_class_count |-> Null, occupancy |-> Null,
     college_enroll |-> Null, time_dist |-> Null, tab2_metrics |-> Null,
     college_instructor_count |-> Null, room_metrics |-> Null, csv_data |-> Null]

\* what the run hands to the page; a query the run does not reach, or one
\* that reports missing data, leaves Null
Output(t0, u1, credit, u2, include, kind) ==
    LET t == IF "Code" \in t0.columns THEN WithFirstDigit(t0) ELSE t0
        f1 == college_filter(t, u1)
        f2 == tab2_filtered_df(t, u2, include)
    IN [body |-> TRUE,
        raised_at |-> raised_at(t),
        level |-> IF Ran(t, 107)
                  THEN Some(LevelMetrics(df_at_key_metrics(t, f1)))
                  ELSE Null,
        filtered_df |-> IF Ran(t, 178) THEN Some(f1) ELSE Null,
        gen_top |-> IF Ran(t, 216) THEN gen_top(t, f1, kind) ELSE Null,
        day |-> IF Ran(t, 283) THEN day_distribution(t, f1) ELSE Null,
        duration |-> IF Ran(t, 448)
                     THEN duration_distribution(t, temp_df(t, f1, credit_choice(t, credit)))
                     ELSE Null,
        late_reg |-> IF Ran(t, 460) THEN late_reg(t, f1, kind) ELSE Null,
        tab2_filtered_df |-> IF Ran(t, 551) THEN Some(f2) ELSE Null,
        instructor_load |-> IF Ran(t, 654) THEN instructor_load(t, f2, kind) ELSE Null,
        instructor_students |->
            IF Ran(t, 675) THEN instructor_students(t, f2, kind) ELSE Null,
        building_room_count |-> IF Ran(t, 778) THEN building_room_count(t) ELSE Null,
        room_usage |-> IF Ran(t, 825) THEN room_usage(t, kind) ELSE Null,
        building_class_count |-> IF Ran(t, 867) THEN building_class_count(t) ELSE Null,
        occupancy |-> IF Ran(t, 951)
                      THEN occupancy(t, df_for_occupancy(t, f1, f2))
                      ELSE Null,
        college_enroll |-> IF Ran(t, 195) THEN college_enroll(t, f1, kind) ELSE Null,
        time_dist |-> IF Ran(t, 374)
                      THEN time_dist(t, temp_df(t, f1, credit_choice(t, credit)))
                      ELSE Null,
        tab2_metrics |-> IF Ran(t, 592) THEN tab2_metrics(t, f2) ELSE Null,
        college_instructor_count |->
            IF Ran(t, 610) THEN college_instructor_count(t, f2) ELSE Null,
        room_metrics |-> IF Ran(t, 744) THEN room_metrics(t) ELSE Null,
        csv_data |-> IF Ran(t, 961) THEN Some(csv_data(t, f2)) ELSE Null]

\* the stored table after the run: line 75 writes First_Digit into it
TableAfterRun(t0) == IF "Code" \in t0.columns THEN WithFirstDigit(t0) ELSE t0

----------------------------------------------------------------------------
(* The session *)

\* a new session on a library build whose sort is one of kinds
InitOn(kinds) ==
    /\ data_loaded = FALSE
    /\ df = [columns |-> {}, rows |-> <<>>]
    /\ sort_kind \in kinds
    /\ unchecked1 = {}
    /\ credit_filter = "All"
    /\ unchecked2 = {}
    /\ include_special = TRUE
    /\ out = NoOutput

Init == InitOn(SortKinds)

\* the script body runs with the widget values given
Run(t0, u1, credit, u2, include) ==
    /\ df' = TableAfterRun(t0)
    /\ out' = Output(t0, u1, credit, u2, include, sort_kind)
    /\ unchecked1' = u1
    /\ credit_filter' = credit
    /\ unchecked2' = u2
    /\ include_special' = include
    /\ UNCHANGED sort_kind

\* no file is chosen yet: the script stops at the uploader
NoFile ==
    /\ ~ data_loaded
    /\ UNCHANGED vars

\* a file is uploaded: it is loaded and stored, data_loaded is set and
\* st.rerun() runs the script again, now through the dashboard body
Upload(files) ==
    /\ ~ data_loaded
    /\ \E file \in files :
          Run(load_data(file), unchecked1, credit_filter, unchecked2, include_special)
    /\ data_loaded' = TRUE

\* the uploader offered in every pass, loaded or not
LoadInAnyPass(files) ==
    /\ \E file \in files : df' = load_data(file)
    /\ data_loaded' = TRUE
    /\ out' = NoOutput
    /\ UNCHANGED <<sort_kind, unchecked1, credit_filter, unchecked2, include_special>>

\* a file is uploaded, seen one statement at a time: the pass that loads
\* the file stores the table and sets data_loaded, and ends at st.rerun()
\* before the body
Load(files) ==
    /\ ~ data_loaded
    /\ \E file \in files : df' = load_data(file)
    /\ data_loaded' = TRUE
    /\ UNCHANGED <<sort_kind, unchecked1, credit_filter, unchecked2, include_special, out>>

\* an interaction that changes no filter (a tab is opened, the CSV is
\* downloaded)
Rerun ==
    /\ data_loaded
    /\ Run(df, unchecked1, credit_filter, unchecked2, include_special)
    /\ UNCHANGED data_loaded

Toggle(set, c) == IF c \in set THEN set \ {c} ELSE set \cup {c}

\* a College checkbox of tab 1 is clicked
ToggleCollege1 ==
    /\ data_loaded
    /\ Ran(df, 167)
    /\ "College" \in df.columns
    /\ \E c \in options_for_checkbox(df) :
          Run(df, Toggle(unchecked1, Val(c)), credit_filter, unchecked2, include_special)
    /\ UNCHANGED data_loaded

\* the credit type radio is set
SetCredit ==
    /\ data_loaded
    /\ Ran(df, 340)
    /\ "KIMEP Credit" \in df.columns
    /\ \E v \in CreditChoices \ {credit_filter} :
          Run(df, unchecked1, v, unchecked2, include_special)
    /\ UNCHANGED data_loaded

\* a College checkbox of tab 2 is clicked
ToggleCollege2 ==
    /\ data_loaded
    /\ Ran(df, 522)
    /\ "College" \in df.columns
    /\ \E c \in options_for_checkbox(df) :
          Run(df, unchecked1, credit_filter, Toggle(unchecked2, Val(c)), include_special)
    /\ UNCHANGED data_loaded

\* the empty-time checkbox of tab 2 is clicked
ToggleEmptyTime ==
    /\ data_loaded
    /\ Ran(df, 543)
    /\ Run(df, unchecked1, credit_filter, unchecked2, ~ include_special)
    /\ UNCHANGED data_loaded

----------------------------------------------------------------------------
(* The uploaded sheets the specifications draw from *)

AllColumns == {"Index", "Code", "Title", "College", "Instructor",
               "Days1", "Days2", "Days3", "Days4", "Days5", "Time", "Hall",
               "Hall capacity", "Reg. Stud.", "Duration", "Type",
               "Late Registration", "KIMEP Credit"}

BCB == <<"B", "C", "B">>

GEN == <<"G", "E", "N">>

ACC101 == <<"A", "C", "C", "1", "0", "1">>

PSY502 == <<"P", "S", "Y", "5", "0", "2">>

FND005 == <<"F", "N", "D", "0", "0", "5">>

NineToTen == <<"0", "9", ":", "0", "0", " ", "-", " ", "0", "9", ":", "5", "0">>

\* a plain row; every family below varies some of its cells
BaseRow ==
    [col \in AllColumns |->
        CASE col = "Index" -> Some(1)
          [] col = "Code" -> Some(ACC101)
          [] col = "Title" -> Some(<<"T">>)
          [] col = "College" -> Some(BCB)
          [] col = "Instructor" -> Some(<<"I">>)
          [] col = "Days1" -> Some(<<"M">>)
          [] col = "Time" -> Some(NineToTen)
          [] col = "Hall" -> Some(<<"1", "/", "V">>)
          [] col = "Hall capacity" -> Some(50)
          [] col = "Reg. Stud." -> Some(25)
          [] col = "Duration" -> Some(50)
          [] col = "Type" -> Some(<<"L", "e", "c">>)
          [] col = "Late Registration" -> Some(0)
          [] col = "KIMEP Credit" -> Some(3)
          [] OTHER -> Null]

\* the row r with the cells of the record-like function e replaced
With(r, e) == [col \in DOMAIN r |-> IF col \in DOMAIN e THEN e[col] ELSE r[col]]

\* the sheets with the given columns and at most n rows drawn from rowset
Sheets(columns, rowset, n) ==
    {[columns |-> columns, rows |-> [i \in DOMAIN rs |-> [c \in columns |-> rs[i][c]]]] :
        rs \in UNION {[1..k -> rowset] : k \in 0..n}}

\* all strings over alphabet of length at most n
Strings(alphabet, n) == UNION {[1..k -> alphabet] : k \in 0..n}

MaxCodeLen == 3

CodeAlphabet == {"E", "0", "2", "6", "U0663"}

\* one-row sheets over every Code of bounded length, and the missing Code
CodeFiles ==
    Sheets(AllColumns,
           {With(BaseRow, [Code |-> c]) :
               c \in {Null} \cup {Some(x) : x \in Strings(CodeAlphabet, MaxCodeLen)}},
           1)

MaxLevelRows == 3

CodeSamples == {Null, Some(ACC101), Some(PSY502), Some(FND005)}

IndexSamples == {Null, Some(1), Some(2)}

\* sheets whose rows share or do not share an Index, over codes of every level
LevelFiles ==
    Sheets(AllColumns,
           {With(BaseRow, [Index |-> i, Code |-> c]) :
               i \in IndexSamples, c \in CodeSamples},
           MaxLevelRows)

MaxDurationRows == 2

Back == <<"B", "a", "c", "k">>

Lab == <<"L", "a", "b">>

\* sheets whose rows share or do not share a Code, flagged back-to-back or
\* not, of either class length
DurationFiles ==
    Sheets(AllColumns,
           {With(BaseRow, [Code |-> c, Type |-> ty, Duration |-> d]) :
               c \in {Null, Some(ACC101), Some(PSY502)},
               ty \in {Null, Some(Back), Some(Lab)},
               d \in {Some(50), Some(75)}},
           MaxDurationRows)

MaxRateRows == 2

\* sheets over enrolments and capacities: missing, zero, exact and inexact
\* quotients, ties of the rounding, rates above 100
RateFiles ==
    Sheets(AllColumns,
           {With(BaseRow, [c \in {"Reg. Stud.", "Hall capacity"} |->
                              IF c = "Reg. Stud." THEN reg ELSE cap]) :
               reg \in {Null, Some(0), Some(1), Some(25), Some(60)},
               cap \in {Null, Some(0), Some(16), Some(30), Some(50)}},
           MaxRateRows)

MaxOccupancyRows == 2

\* sheets whose rows share or do not share an Index, with rates in every
\* bucket
OccupancyFiles ==
    Sheets(AllColumns,
           {With(BaseRow, [c \in {"Index", "Reg. Stud."} |->
                              IF c = "Index" THEN i ELSE reg]) :
               i \in IndexSamples,
               reg \in {Null, Some(10), Some(25), Some(45), Some(60)}},
           MaxOccupancyRows)

MaxHallLen == 3

MaxBuildingRows == 2

HallAlphabet == {"A", "/", " "}

\* sheets over every Hall of bounded length, and the missing Hall
BuildingFiles ==
    Sheets(AllColumns,
           {With(BaseRow, [Hall |-> h]) :
               h \in {Null} \cup {Some(x) : x \in Strings(HallAlphabet, MaxHallLen)}},
           MaxBuildingRows)

MaxDayRows == 2

\* sheets whose rows meet on no, one, two or three days, the same day twice
\* or a day outside the weekday list, with and without an enrolment
DayFiles ==
    Sheets(AllColumns,
           {With(BaseRow, [c \in {"Days1", "Days2", "Days3", "Reg. Stud."} |->
                              CASE c = "Days1" -> d1 [] c = "Days2" -> d2
                                [] c = "Days3" -> d3 [] OTHER -> reg]) :
               d1 \in {Null, Some(<<"M">>)},
               d2 \in {Some(<<"M">>), Some(<<"T">>)},
               d3 \in {Null, Some(<<"S", "a">>)},
               reg \in {Null, Some(1), Some(2)}},
           MaxDayRows)

MaxTopRows == 17

MaxVaryRows == 5

\* the number of distinct course, instructor and room names of TopFiles
TopNames == TopInstructor + 1

\* the name of row j: later rows have earlier names, and the names repeat
\* after TopNames rows
TopName(j) == <<Upper[TopNames - ((j - 1) % TopNames)]>>

TopRow(j, reg) ==
    [col \in AllColumns |->
        CASE col = "Index" -> Some(j)
          [] col \in {"Code", "Instructor", "Hall"} -> Some(TopName(j))
          [] col = "College" -> Some(GEN)
          [] col \in {"Reg. Stud.", "Late Registration"} -> Some(reg)
          [] OTHER -> BaseRow[col]]

\* sheets of general-education rows with more groups than a top list
\* holds: row j enrols j students, or j + 1 when j is one of the first
\* MaxVaryRows even numbers and v says so, which ties it with row j + 1
TopFiles ==
    UNION {{[columns |-> AllColumns,
             rows |-> [j \in 1..n |->
                         TopRow(j, IF j \in DOMAIN v /\ j % 2 = 0 THEN j + v[j] ELSE j)]] :
               v \in [{j \in 1..Min2(n, 2 * MaxVaryRows) : j % 2 = 0} -> {0, 1}]} :
           n \in 0..MaxTopRows}

----------------------------------------------------------------------------
(* Specifications: one session each, over a family of sheets *)

NextCode == NoFile \/ Upload(CodeFiles) \/ Rerun \/ ToggleCollege1

SpecCode == InitOn({"stable"}) /\ [][NextCode]_vars

NextLevel == NoFile \/ Upload(LevelFiles) \/ Rerun

SpecLevel == InitOn({"stable"}) /\ [][NextLevel]_vars

----------------------------------------------------------------------------
(* Course levels *)

\* the level the first decimal digit of a Code stands for
CodeLevel(code) ==
    IF isna(code) \/ ~ \E p \in DOMAIN Val(code) : Val(code)[p] \in Digits
    THEN "Unknown"
    ELSE LET s == Val(code)
             p == CHOOSE q \in DOMAIN s :
                      s[q] \in Digits /\ \A r \in 1..(q - 1) : s[r] \notin Digits
         IN IF s[p] = "0" THEN "Foundation"
            ELSE IF s[p] \in {"1", "2", "3", "4", "U0663"} THEN "Undergraduate"
            ELSE "Graduate"

\* the counts of the four metrics of a run that drew them
LevelCounts == Val(out.level)

Sections == {df.rows[i]["Index"] : i \in DOMAIN df.rows}

\* the first row with Index x
FirstRowOf(x) ==
    CHOOSE i \in DOMAIN df.rows :
        df.rows[i]["Index"] = x /\ \A j \in 1..(i - 1) : df.rows[j]["Index"] # x

\* the sections of a level
SectionsOf(level) ==
    {x \in Sections : CodeLevel(df.rows[FirstRowOf(x)]["Code"]) = level}

\* C2: level counts.  Every distinct Index is counted at most once, a
\* section whose level is Unknown is counted in no level, and the total is
\* Foundation + Undergraduate + Graduate, the number of rows left after
\* deduplicating by Index whose level is not Unknown.
C2_LevelCounts ==
    notna(out.level) =>
        /\ LevelCounts.foundation_count = Cardinality(SectionsOf("Foundation"))
        /\ LevelCounts.undergrad_count_new = Cardinality(SectionsOf("Undergraduate"))
        /\ LevelCounts.master_count = Cardinality(SectionsOf("Graduate"))
        /\ LevelCounts.total_courses_count =
              LevelCounts.foundation_count + LevelCounts.undergrad_count_new
              + LevelCounts.master_count
        /\ LevelCounts.total_courses_count =
              Cardinality(Sections \ SectionsOf("Unknown"))
        /\ LevelCounts.total_courses_count <= Cardinality(Sections)

\* rows ACC101 / Index 1, ACC101 / Index 1, PSY502 / Index 2 give
\* Undergraduate 1, Graduate 1, Total 2
C2_Witness ==
    /\ notna(out.level)
    /\ Len(df.rows) = 3
    /\ df.rows[1]["Code"] = Some(ACC101) /\ df.rows[1]["Index"] = Some(1)
    /\ df.rows[2]["Code"] = Some(ACC101) /\ df.rows[2]["Index"] = Some(1)
    /\ df.rows[3]["Code"] = Some(PSY502) /\ df.rows[3]["Index"] = Some(2)
    /\ LevelCounts.undergrad_count_new = 1
    /\ LevelCounts.master_count = 1
    /\ LevelCounts.foundation_count = 0
    /\ LevelCounts.total_courses_count = 2

----------------------------------------------------------------------------
(* Back-to-back classes and class length *)

NextDuration == NoFile \/ Upload(DurationFiles) \/ SetCredit

SpecDuration == InitOn({"stable"}) /\ [][NextDuration]_vars

\* the Type holds 'back' in any mix of upper and lower case
TypeHasBack(type) ==
    /\ notna(type)
    /\ \E k \in 0..(Len(Val(type)) - 4) :
          /\ Val(type)[k + 1] \in {"b", "B"}
          /\ Val(type)[k + 2] \in {"a", "A"}
          /\ Val(type)[k + 3] \in {"c", "C"}
          /\ Val(type)[k + 4] \in {"k", "K"}

\* what the class-length query of the last run worked out
ClassLength == Val(out.duration)

\* the rows the class-length query started from / kept, as sets of labels
DurationRows == Range(ClassLength.temp)

RetainedRows == Range(ClassLength.kept)

\* C3: back-to-back collapsing.  A row is back-to-back iff its Type holds
\* 'back' in any case (a missing Type never does).  A row is suppressed iff
\* its Code is the Code of at least one back-to-back row and an earlier row
\* has that Code: of such a Code only the first row is retained, whatever
\* the later rows' Type, and the rows of every other Code (and the rows
\* without a Code) are all retained.
C3_Collapse ==
    notna(out.duration) =>
        \A i \in DurationRows :
            i \notin RetainedRows <=>
                /\ notna(df.rows[i]["Code"])
                /\ \E j \in DurationRows :
                      /\ df.rows[j]["Code"] = df.rows[i]["Code"]
                      /\ TypeHasBack(df.rows[j]["Type"])
                /\ \E j \in DurationRows :
                      j < i /\ df.rows[j]["Code"] = df.rows[i]["Code"]

\* an unflagged row is suppressed because an earlier row of its Code is
\* back-to-back
C3_Witness ==
    /\ notna(out.duration)
    /\ ClassLength.temp = <<1, 2>>
    /\ ClassLength.kept = <<1>>
    /\ df.rows[1]["Code"] = df.rows[2]["Code"]
    /\ TypeHasBack(df.rows[1]["Type"])
    /\ ~ TypeHasBack(df.rows[2]["Type"])

\* the flagged rows of Code c among the rows the query started from
FlaggedRows(c) ==
    {i \in DurationRows : df.rows[i]["Code"] = c /\ TypeHasBack(df.rows[i]["Type"])}

\* C4: among the back-to-back rows of one Code, the first in row order is
\* kept as a duration sample and every other one is suppressed, whatever
\* the order of flagged and unflagged rows of that Code.
C4_FirstFlaggedKept ==
    notna(out.duration) =>
        \A i \in DurationRows :
            (notna(df.rows[i]["Code"]) /\ TypeHasBack(df.rows[i]["Type"])) =>
                (i \in RetainedRows <=>
                    \A j \in FlaggedRows(df.rows[i]["Code"]) : i <= j)

\* C5: the effective duration of every retained row is 150 when the row is
\* itself back-to-back, whatever its Duration, and its own Duration
\* otherwise.
C5_EffectiveDuration ==
    notna(out.duration) =>
        \A k \in DOMAIN ClassLength.kept :
            ClassLength.Effective_Duration[k] =
                IF TypeHasBack(df.rows[ClassLength.kept[k]]["Type"])
                THEN Some(150)
                ELSE df.rows[ClassLength.kept[k]]["Duration"]

\* two rows of one Code, both with 'Back' in Type: the second is suppressed
\* and the first, whose Duration is 75, has effective duration 150
C5_Witness ==
    /\ notna(out.duration)
    /\ ClassLength.temp = <<1, 2>>
    /\ df.rows[1]["Code"] = df.rows[2]["Code"]
    /\ df.rows[1]["Type"] = Some(Back)
    /\ df.rows[2]["Type"] = Some(Back)
    /\ df.rows[1]["Duration"] = Some(75)
    /\ ClassLength.kept = <<1>>
    /\ ClassLength.Effective_Duration = <<Some(150)>>

----------------------------------------------------------------------------
(* Occupancy *)

NextRate == NoFile \/ Upload(RateFiles) \/ ToggleEmptyTime

SpecRate == InitOn({"stable"}) /\ [][NextRate]_vars

NextOccupancy == NoFile \/ Upload(OccupancyFiles) \/ ToggleEmptyTime

SpecOccupancy == InitOn({"stable"}) /\ [][NextOccupancy]_vars

\* what the occupancy analysis of the last run worked out; the rates are
\* in tenths of a percent
Occupancy == Val(out.occupancy)

\* C6: the occupancy rate is defined for every row of the analysed table
\* and never missing; it is 0 when Hall capacity is missing or 0, whatever
\* Reg. Stud. is, and when Reg. Stud. is missing; otherwise it is
\* Reg. Stud. / Hall capacity * 100 rounded to one decimal (within half a
\* tenth of the quotient); it is never negative and not capped at 100.
C6_OccupancyRate ==
    notna(out.occupancy) =>
        /\ Len(Occupancy.Occupancy_Rate) = Len(Occupancy.rows)
        /\ \A k \in DOMAIN Occupancy.rows :
              LET reg == df.rows[Occupancy.rows[k]]["Reg. Stud."]
                  cap == df.rows[Occupancy.rows[k]]["Hall capacity"]
                  rate == Occupancy.Occupancy_Rate[k]
              IN /\ rate \in Nat
                 /\ (isna(cap) \/ cap = Some(0) \/ isna(reg)) => rate = 0
                 /\ (notna(cap) /\ cap # Some(0) /\ notna(reg)) =>
                       /\ 2 * (rate * Val(cap) - Val(reg) * 1000) <= Val(cap)
                       /\ 2 * (Val(reg) * 1000 - rate * Val(cap)) <= Val(cap)

\* 60 students in a room of 50 have rate 120.0, 25 in 50 have 50.0, and a
\* room of capacity 0 has rate 0
C6_Witness ==
    /\ notna(out.occupancy)
    /\ Len(Occupancy.rows) = 2
    /\ \E k \in DOMAIN Occupancy.rows :
          /\ df.rows[Occupancy.rows[k]]["Reg. Stud."] = Some(60)
          /\ df.rows[Occupancy.rows[k]]["Hall capacity"] = Some(50)
          /\ Occupancy.Occupancy_Rate[k] = 1200
    /\ \E k \in DOMAIN Occupancy.rows :
          /\ df.rows[Occupancy.rows[k]]["Reg. Stud."] = Some(25)
          /\ df.rows[Occupancy.rows[k]]["Hall capacity"] = Some(0)
          /\ Occupancy.Occupancy_Rate[k] = 0

\* C7: the three bucket counts sum to the number of distinct Index values
\* of the analysed table: every section is in exactly one bucket.
C7_BucketsPartitionSections ==
    notna(out.occupancy) =>
        Occupancy.under_50 + Occupancy.optimal + Occupancy.over_90 =
            Cardinality({df.rows[i]["Index"] : i \in Range(Occupancy.rows)} \ {Null})

----------------------------------------------------------------------------
(* Buildings *)

NextBuilding == NoFile \/ Upload(BuildingFiles) \/ Rerun

SpecBuilding == InitOn({"stable"}) /\ [][NextBuilding]_vars

\* s without its leading and trailing blanks
Trimmed(s) ==
    LET inked == {p \in DOMAIN s : s[p] # " "}
    IN IF inked = {} THEN <<>>
       ELSE LET first == CHOOSE p \in inked : \A q \in inked : p <= q
                last == CHOOSE p \in inked : \A q \in inked : q <= p
            IN [k \in 1..(last - first + 1) |-> s[first + k - 1]]

\* the trimmed text after the first '/' of a Hall, missing when the Hall is
\* missing or has no '/'
TextAfterFirstSlash(hall) ==
    IF isna(hall) \/ ~ \E p \in DOMAIN Val(hall) : Val(hall)[p] = "/"
    THEN Null
    ELSE LET s == Val(hall)
             p == CHOOSE q \in DOMAIN s :
                      s[q] = "/" /\ \A r \in 1..(q - 1) : s[r] # "/"
         IN Some(Trimmed([k \in 1..(Len(s) - p) |-> s[p + k]]))

BuildingRooms == Val(out.building_room_count)

BuildingClasses == Val(out.building_class_count)

\* C8: Building is the trimmed text after the first '/' of Hall, all of it
\* when Hall has more than one '/', and missing when Hall is missing or has
\* no '/'; a row with a missing Building is in no building aggregate.
C8_BuildingAfterFirstSlash ==
    (notna(out.building_room_count) /\ notna(out.building_class_count)) =>
        \A i \in DOMAIN df.rows :
            /\ BuildingRooms.Building[i] = TextAfterFirstSlash(df.rows[i]["Hall"])
            /\ isna(BuildingRooms.Building[i]) =>
                  /\ i \notin Range(BuildingRooms.valid)
                  /\ i \notin Range(BuildingClasses.valid)

----------------------------------------------------------------------------
(* Days of the week *)

NextDay == NoFile \/ Upload(DayFiles) \/ ToggleCollege1

SpecDay == InitOn({"stable"}) /\ [][NextDay]_vars

DayDistribution == Val(out.day)

\* the rows the day distribution is taken over
DayRows == Val(out.filtered_df)

DayCells == {"Days1", "Days2", "Days3", "Days4", "Days5"} \cap df.columns

\* the number of day cells of row i that are present / that hold day d
PresentDays(i) == Cardinality({c \in DayCells : notna(df.rows[i][c])})

DaysOn(i, d) == Cardinality({c \in DayCells : df.rows[i][c] = Some(d)})

\* Reg. Stud. of row i, 0 when missing
Students(i) ==
    IF notna(df.rows[i]["Reg. Stud."]) THEN Val(df.rows[i]["Reg. Stud."]) ELSE 0

\* the number of observations, and the sum of the per-day class counts, is
\* the number of present day cells of the filtered table
DayObservationCount ==
    /\ Len(DayDistribution.day_data) =
          SumSeq([k \in DOMAIN DayRows |-> PresentDays(DayRows[k])])
    /\ SumSeq([r \in DOMAIN DayDistribution.day_summary |->
                  DayDistribution.day_summary[r].Classes]) =
          Len(DayDistribution.day_data)

\* the weekdays are listed in the order M, T, W, Th, F, each once
DaysInOrder ==
    \A r, q \in DOMAIN DayDistribution.day_summary :
        (r < q /\ notna(DayDistribution.day_summary[q].Day)) =>
            /\ notna(DayDistribution.day_summary[r].Day)
            /\ \E a, b \in DOMAIN day_order :
                  /\ a < b
                  /\ day_order[a] = Val(DayDistribution.day_summary[r].Day)
                  /\ day_order[b] = Val(DayDistribution.day_summary[q].Day)

\* C9 as stated: the observation count, and a day's student sum is the sum
\* of Reg. Stud. over the rows scheduled on that day.
C9_SumOverRowsOfDay ==
    notna(out.day) =>
        /\ DayObservationCount
        /\ DaysInOrder
        /\ \A r \in DOMAIN DayDistribution.day_summary :
              notna(DayDistribution.day_summary[r].Day) =>
                  DayDistribution.day_summary[r].TotalStudents =
                      SumSeq([k \in DOMAIN DayRows |->
                                IF DaysOn(DayRows[k], Val(DayDistribution.day_summary[r].Day)) > 0
                                THEN Students(DayRows[k]) ELSE 0])

\* C9, amended: every row gives one observation per present day cell, each
\* with the row's whole Reg. Stud. (0 when missing); the observation count
\* and the sum of the class counts is the number of present day cells of
\* the filtered table; a day's class count is the number of day cells that
\* hold the day and its student sum adds Reg. Stud. once per such cell, so
\* a row naming the day in two day columns is counted twice.
C9_SumOverDayCells ==
    notna(out.day) =>
        /\ DayObservationCount
        /\ DaysInOrder
        /\ \A r \in DOMAIN DayDistribution.day_summary :
              notna(DayDistribution.day_summary[r].Day) =>
                  LET d == Val(DayDistribution.day_summary[r].Day)
                  IN /\ DayDistribution.day_summary[r].Classes =
                           SumSeq([k \in DOMAIN DayRows |-> DaysOn(DayRows[k], d)])
                     /\ DayDistribution.day_summary[r].TotalStudents =
                           SumSeq([k \in DOMAIN DayRows |->
                                     DaysOn(DayRows[k], d) * Students(DayRows[k])])
        /\ \A d \in Range(day_order) :
              (\E k \in DOMAIN DayRows : DaysOn(DayRows[k], d) > 0) =>
                  \E r \in DOMAIN DayDistribution.day_summary :
                      DayDistribution.day_summary[r].Day = Some(d)

\* a row with three present day cells and a row with one give exactly four
\* observations
C9_Witness ==
    /\ notna(out.day)
    /\ DayRows = <<1, 2>>
    /\ PresentDays(1) = 3
    /\ PresentDays(2) = 1
    /\ Len(DayDistribution.day_data) = 4
    /\ Students(1) = 2
    /\ DaysOn(1, <<"M">>) = 1

----------------------------------------------------------------------------
(* Top-N lists *)

NextTopN == NoFile \/ Upload(TopFiles) \/ Rerun

SpecTopN == Init /\ [][NextTopN]_vars

\* the five top-N lists of the last run, each with the groups it was taken
\* from, in group-key order, and its N
TopLists ==
    {[top |-> Val(out.gen_top), n |-> TopGeneral,
      groups |-> groupby_sum(df, gen_courses(df, Val(out.filtered_df)),
                             <<"Code", "Title">>, "Reg. Stud.")],
     [top |-> Val(out.late_reg), n |-> TopLate,
      groups |-> groupby_sum(df, Val(out.filtered_df),
                             <<"Code", "Title">>, "Late Registration")],
     [top |-> Val(out.room_usage), n |-> TopRooms,
      groups |-> groupby_nunique(df, Labels(df), <<"Hall">>, "Index")],
     [top |-> Val(out.instructor_load), n |-> TopInstructor,
      groups |-> groupby_nunique(df, Val(out.tab2_filtered_df),
                                 <<"Instructor">>, "Index")],
     [top |-> Val(out.instructor_students), n |-> TopInstructor,
      groups |-> groupby_sum(df, Val(out.tab2_filtered_df),
                             <<"Instructor">>, "Reg. Stud.")]}

AllTopListsDrawn ==
    /\ notna(out.gen_top)
    /\ notna(out.late_reg)
    /\ notna(out.room_usage)
    /\ notna(out.instructor_load)
    /\ notna(out.instructor_students)

\* the list has min(N, groups) rows, each a group of its own, in
\* descending order of the aggregate, and no omitted group has a larger
\* aggregate than an included one
TopNOfGroups(l) ==
    /\ Len(l.top) = Min2(l.n, Len(l.groups))
    /\ \A r \in DOMAIN l.top : l.top[r] \in Range(l.groups)
    /\ \A r, q \in DOMAIN l.top : r # q => l.top[r].key # l.top[q].key
    /\ \A r, q \in DOMAIN l.top : r < q => l.top[r].value >= l.top[q].value
    /\ \A g \in Range(l.groups) \ Range(l.top) :
          \A r \in DOMAIN l.top : l.top[r].value >= g.value

\* groups with equal aggregates are listed in group-key order, and among
\* the groups tied at the cut the first ones in group-key order are kept
StableTies(l) ==
    /\ \A r, q \in DOMAIN l.top :
          (r < q /\ l.top[r].value = l.top[q].value) =>
              KeyLess(l.top[r].key, l.top[q].key)
    /\ \A g \in Range(l.groups) \ Range(l.top) :
          \A r \in DOMAIN l.top :
              l.top[r].value = g.value => KeyLess(l.top[r].key, g.key)

\* C10: every top-N list has exactly min(N, number of groups) rows, is in
\* descending order of the aggregate, holds no group whose aggregate is
\* smaller than that of an omitted group, and lists groups with equal
\* aggregates in their group-key order (stable sort).
C10_TopNStable ==
    AllTopListsDrawn => \A l \in TopLists : TopNOfGroups(l) /\ StableTies(l)

----------------------------------------------------------------------------
(* Missing columns *)

MaxColumnRows == 2

\* rows on which every query of the page has data when its columns are there
FullRows ==
    {With(BaseRow, [c \in {"College", "Days2", "Reg. Stud.", "Index"} |->
                       CASE c = "College" -> Some(GEN)
                         [] c = "Days2" -> Some(<<"T">>)
                         [] c = "Index" -> Some(i)
                         [] OTHER -> Some(reg)]) :
        i \in {1, 2}, reg \in {10, 25}}

\* sheets with rows that lack exactly one column
ColumnFiles ==
    UNION {{f \in Sheets(AllColumns \ {c}, FullRows, MaxColumnRows) : f.rows # <<>>} :
           c \in AllColumns}

NextColumns == NoFile \/ Upload(ColumnFiles) \/ Rerun

SpecColumns == InitOn({"stable"}) /\ [][NextColumns]_vars

\* the columns a query reads
Needs ==
    [level |-> {"Code", "Index"},
     gen_top |-> {"College", "Reg. Stud.", "Title", "Code"},
     day |-> {"Reg. Stud."},
     duration |-> {"Duration", "Type", "Code"},
     late_reg |-> {"Late Registration", "Code", "Title"},
     instructor_load |-> {"Instructor", "Index"},
     instructor_students |-> {"Instructor", "Reg. Stud."},
     building_room_count |-> {"Hall"},
     room_usage |-> {"Hall", "Index"},
     building_class_count |-> {"Hall", "Index"},
     occupancy |-> {"Reg. Stud.", "Hall capacity", "Index"}]

\* C11: a missing column never raises: on a table that lacks a column the
\* run goes to its end, every query that reads the column reports that it
\* has no data and every other query gives its result in the same run.
C11_MissingColumnNeverRaises ==
    out.body =>
        /\ out.raised_at = 0
        /\ \A q \in DOMAIN Needs : notna(out[q]) <=> Needs[q] \subseteq df.columns

----------------------------------------------------------------------------
(* The session, pass by pass *)

MaxSessionRows == 2

\* rows of either College or none, with a time, the empty time or none;
\* the class and its enrolment (a fifth, nine tenths, half of the 50 seats)
\* go with the College
SessionRows ==
    {With(BaseRow, [c \in {"College", "Time", "Index", "Reg. Stud."} |->
                       CASE c = "College" -> college
                         [] c = "Time" -> time
                         [] c = "Index" ->
                                Some(IF college = Some(BCB) THEN 1
                                     ELSE IF college = Some(GEN) THEN 2 ELSE 3)
                         [] OTHER ->
                                Some(IF college = Some(BCB) THEN 10
                                     ELSE IF college = Some(GEN) THEN 45 ELSE 25)]) :
        college \in {Null, Some(BCB), Some(GEN)},
        time \in {Null, Some(NineToTen), Some(EmptyTime)}}

\* sheets with and without a College column
SessionFiles ==
    Sheets(AllColumns, SessionRows, MaxSessionRows)
        \cup Sheets(AllColumns \ {"College"}, SessionRows, MaxSessionRows)

\* the pass st.rerun() starts right after the load
FirstPass == ~ out.body /\ Rerun

\* the passes the user starts on the rendered page
Refresh == out.body /\ Rerun

ClickCollege1 == out.body /\ ToggleCollege1

ClickCredit == out.body /\ SetCredit

ClickCollege2 == out.body /\ ToggleCollege2

ClickEmptyTime == out.body /\ ToggleEmptyTime

NextSession ==
    \/ NoFile
    \/ Load(SessionFiles)
    \/ FirstPass
    \/ Refresh
    \/ ClickCollege1
    \/ ClickCredit
    \/ ClickCollege2
    \/ ClickEmptyTime

SpecSession == InitOn({"stable"}) /\ [][NextSession]_vars

\* a query that ran and has nothing to show: it reports that there is no
\* data, or it draws a chart of no rows
EmptyResult(r) == r = Null \/ r = Some(<<>>)

\* every College checkbox of tab 1 / of tab 2 is unchecked
NoCollegeInTab1 ==
    /\ out.body
    /\ "College" \in df.columns
    /\ options_for_checkbox(df) # {}
    /\ selected_colleges_list(df, unchecked1) = {}

NoCollegeInTab2 ==
    /\ out.body
    /\ "College" \in df.columns
    /\ options_for_checkbox(df) # {}
    /\ selected_colleges_list(df, unchecked2) = {}

\* C12: empty selection.  In a pass with no College selected the filtered
\* table has no rows, the pass does not raise, and each query on the
\* filtered table (enrollment by College, the general-education top 10, the
\* day distribution, the start hours, the class lengths, the late
\* registrations in tab 1; the instructor metrics and the occupancy in
\* tabs 2 and 3) ends with an empty result.
C12_EmptySelection ==
    /\ NoCollegeInTab1 =>
          /\ out.raised_at = 0
          /\ out.filtered_df = Some(<<>>)
          /\ EmptyResult(out.college_enroll)
          /\ EmptyResult(out.gen_top)
          /\ EmptyResult(out.day)
          /\ EmptyResult(out.time_dist)
          /\ notna(out.duration) /\ Val(out.duration).duration_counts = Null
          /\ EmptyResult(out.late_reg)
    /\ NoCollegeInTab2 =>
          /\ out.raised_at = 0
          /\ out.tab2_filtered_df = Some(<<>>)
          /\ out.tab2_metrics = Null
          /\ EmptyResult(out.college_instructor_count)
          /\ EmptyResult(out.instructor_load)
          /\ EmptyResult(out.instructor_students)
          /\ out.occupancy = Null

\* C13: the loaded table is an immutable snapshot: once the table is loaded
\* no pass adds, removes or changes a row, a cell or a column of the
\* session's table, so the table keeps exactly the rows and columns it had
\* immediately after the load.
C13_ImmutableSnapshot == [][data_loaded => df' = df]_vars

\* the table as it was loaded: the stored table without the column the
\* body adds
LoadedColumns == df.columns \ {"First_Digit"}

\* C14: the export.  The CSV a pass offers holds one header line and then
\* one line per row of the loaded table, in row order, each with the cells
\* of that row in every column of the loaded table, whatever College,
\* empty-time or credit filter is selected in any tab: the number of data
\* lines is the number of rows of the loaded table.
C14_ExportFullTable ==
    notna(out.csv_data) =>
        LET csv == Val(out.csv_data)
        IN /\ Len(csv.lines) = Len(df.rows)
           /\ LoadedColumns \subseteq Range(csv.header)
           /\ \A i \in DOMAIN df.rows : \A k \in DOMAIN csv.header :
                 csv.lines[i][k] = Field(df, csv.header[k], df.rows[i][csv.header[k]])

\* a CSV is offered while tab 1 shows one of two rows, tab 2 none, and the
\* credit filter is set
C14_Witness ==
    /\ notna(out.csv_data)
    /\ Len(Val(out.csv_data).lines) = 2
    /\ Len(Val(out.filtered_df)) = 1
    /\ Val(out.tab2_filtered_df) = <<>>
    /\ credit_filter = "2 Credits"
    /\ ~ include_special

----------------------------------------------------------------------------
(* Type coercion at load *)

MaxCoercionRows == 2

TwentyFive == <<"2", "5">>

TwoA == <<"2", "a">>

\* rows whose Duration is missing, a number, a text that spells a number or
\* a text that spells none, and whose College is missing, a text or a number
CoercionRows ==
    {With(BaseRow, [Duration |-> d, College |-> c]) :
        d \in {Null, Some(50), TextCell(TwentyFive), TextCell(TwoA), TextCell(<<>>)},
        c \in {Null, Some(BCB), Some(TwentyFive), NumberCell(25)}}

\* sheets with every column, without Duration, without College
CoercionFiles ==
    UNION {Sheets(AllColumns \ absent, CoercionRows, MaxCoercionRows) :
           absent \in {{}, {"Duration"}, {"College"}}}

NextLoad == NoFile \/ Load(CoercionFiles)

SpecLoad == InitOn({"stable"}) /\ [][NextLoad]_vars

\* the text s spells the number n: it is made of digits only
Spells(s, n) ==
    /\ s # <<>>
    /\ \A p \in DOMAIN s : s[p] \in Range(AsciiDigits)
    /\ n = NumeralValue(s)

\* the cell c is what load_data makes of the cell raw of a column of numbers
NumericCoerced(raw, c) ==
    IF isna(raw) THEN isna(c)
    ELSE IF OfOtherKind(raw)
    THEN IF \E n \in 0..99 : Spells(raw[1], n)
         THEN \E n \in 0..99 : Spells(raw[1], n) /\ c = Some(n)
         ELSE isna(c)
    ELSE c = raw

\* the cell c is what load_data makes of the cell raw of a column of text
CategoricalCoerced(raw, c) ==
    /\ c # Some(NanText)
    /\ IF isna(raw) THEN isna(c)
       ELSE IF OfOtherKind(raw)
       THEN c \in {Some(Decimal(raw[1])), Some(Decimal(raw[1]) \o <<".", "0">>)}
       ELSE c = raw

\* C15: type coercion at load never fails on a cell.  The loaded table has
\* the columns and the number of rows of the sheet (an absent listed column
\* is skipped, not created); in a numeric column a cell that does not parse
\* as a number is null and every other cell has its number; in a
\* categorical column a missing cell is null, every other cell is its text,
\* and no cell is the text 'nan'.
C15_Coercion ==
    (data_loaded /\ ~ out.body) =>
        \A file \in CoercionFiles :
            df = load_data(file) =>
                /\ df.columns = file.columns
                /\ Len(df.rows) = Len(file.rows)
                /\ \A i \in DOMAIN file.rows : \A col \in file.columns :
                      /\ col \in NumericColumns =>
                            NumericCoerced(file.rows[i][col], df.rows[i][col])
                      /\ col \in CategoricalColumns =>
                            CategoricalCoerced(file.rows[i][col], df.rows[i][col])

\* a sheet whose first row has a Duration that spells no number and a
\* number for College, and whose second row has a Duration that spells 25
\* and no College
C15_File ==
    [columns |-> AllColumns,
     rows |-> <<With(BaseRow, [Duration |-> TextCell(TwoA), College |-> NumberCell(25)]),
                With(BaseRow, [Duration |-> TextCell(TwentyFive), College |-> Null])>>]

C15_Witness ==
    /\ data_loaded
    /\ df = load_data(C15_File)
    /\ df.rows[1]["Duration"] = Null
    /\ df.rows[2]["Duration"] = Some(25)
    /\ df.rows[1]["College"] = Some(<<"2", "5", ".", "0">>)
    /\ df.rows[2]["College"] = Null

----------------------------------------------------------------------------
(* Class length distribution *)

MaxDistributionRows == 3

\* sheets over durations in and out of the three class lengths, missing
\* durations, back-to-back rows and rows sharing a Code
DistributionFiles ==
    Sheets(AllColumns,
           {With(BaseRow, [Code |-> c, Type |-> ty, Duration |-> d]) :
               c \in {Some(ACC101), Some(PSY502)},
               ty \in {Some(Back), Some(Lab)},
               d \in {Null, Some(50), Some(75), Some(100)}},
           MaxDistributionRows)

NextDistribution == NoFile \/ Upload(DistributionFiles) \/ SetCredit

SpecDistribution == InitOn({"stable"}) /\ [][NextDistribution]_vars

\* the retained rows, by position, whose effective duration is d
RetainedWith(d) ==
    {k \in DOMAIN ClassLength.kept : ClassLength.Effective_Duration[k] = Some(d)}

\* the number of retained rows in the three buckets
CountedRows ==
    Cardinality(RetainedWith(50)) + Cardinality(RetainedWith(75))
        + Cardinality(RetainedWith(150))

----------------------------------------------------------------------------
(* Enrollment by College *)

MaxEnrollRows == 3

\* sheets over rows of either College or none, with enrolments that are
\* missing, zero, or make thirds
EnrollFiles ==
    Sheets(AllColumns,
           {With(BaseRow, [c \in {"College", "Reg. Stud."} |->
                              IF c = "College" THEN college ELSE reg]) :
               college \in {Null, Some(BCB), Some(GEN)},
               reg \in {Null, Some(0), Some(1), Some(2)}},
           MaxEnrollRows)

NextEnroll == NoFile \/ Upload(EnrollFiles) \/ ToggleCollege1

SpecEnroll == InitOn({"stable"}) /\ [][NextEnroll]_vars

\* the rows of the filtered table of tab 1 whose College is c
FilteredRowsOf(c) ==
    {i \in Range(Val(out.filtered_df)) : df.rows[i]["College"] = Some(c)}

\* the rows of the filtered table of tab 1 that have a College
FilteredRowsWithCollege ==
    {i \in Range(Val(out.filtered_df)) : notna(df.rows[i]["College"])}

\* the Reg. Stud. of the rows S added up, a missing one as 0
RECURSIVE Enrolled(_)
Enrolled(S) ==
    IF S = {} THEN 0
    ELSE LET i == CHOOSE j \in S : TRUE
         IN (IF notna(df.rows[i]["Reg. Stud."]) THEN Val(df.rows[i]["Reg. Stud."]) ELSE 0)
                + Enrolled(S \ {i})

Distance(a, b) == IF a < b THEN b - a ELSE a - b

\* C17: enrollment by College has exactly one group per College value of
\* the filtered table (a row without College is in no group); a group's
\* value is the sum of Reg. Stud. over its rows, the values add up to the
\* Reg. Stud. of the filtered rows that have a College, and a group's
\* percentage is its value over that total times 100, to one decimal.
C17_EnrollmentByCollege ==
    notna(out.college_enroll) =>
        LET groups == Val(out.college_enroll)
            total == Enrolled(FilteredRowsWithCollege)
        IN /\ {groups[g].key : g \in DOMAIN groups}
                 = {<<Val(df.rows[i]["College"])>> : i \in FilteredRowsWithCollege}
           /\ \A g, h \in DOMAIN groups : groups[g].key = groups[h].key => g = h
           /\ \A g \in DOMAIN groups :
                 /\ groups[g].value = Enrolled(FilteredRowsOf(groups[g].key[1]))
                 /\ total > 0 =>
                       /\ notna(groups[g].Percentage)
                       /\ 2 * Distance(Val(groups[g].Percentage) * total,
                                       groups[g].value * 1000) <= total
           /\ SumSeq([g \in DOMAIN groups |-> groups[g].value]) = total

\* two Colleges with one and two students, and a row without College that
\* is in no group: 66.7 and 33.3 percent
C17_Witness ==
    /\ notna(out.college_enroll)
    /\ Len(Val(out.filtered_df)) = 2
    /\ Len(df.rows) = 3
    /\ \E i \in DOMAIN df.rows : isna(df.rows[i]["College"])
    /\ Val(out.college_enroll)
         = <<[key |-> <<GEN>>, value |-> 2, Percentage |-> Some(667)],
             [key |-> <<BCB>>, value |-> 1, Percentage |-> Some(333)]>>

----------------------------------------------------------------------------
(* Session lifecycle *)

\* the table t without the column the body adds: the table as it was loaded
AsLoaded(t) ==
    [columns |-> t.columns \ {"First_Digit"},
     rows |-> [i \in DOMAIN t.rows |->
                 [col \in t.columns \ {"First_Digit"} |-> t.rows[i][col]]]]

\* C18: session lifecycle.  The body has run only in a session whose
\* data_loaded is true and which holds the loaded table; once data_loaded
\* is true it stays true, no upload is offered any more, the table that was
\* loaded is never replaced, and every later pass computes its filters and
\* aggregates from the stored table.
C18_Lifecycle ==
    /\ [](out.body => data_loaded)
    /\ [](data_loaded => ~ ENABLED Load(SessionFiles))
    /\ [][data_loaded =>
             /\ data_loaded'
             /\ AsLoaded(df') = AsLoaded(df)
             /\ out' = Output(df, unchecked1', credit_filter', unchecked2',
                              include_special', sort_kind)]_vars

\* the body has run on a loaded table and a filter of each tab has been
\* changed since
C18_Witness ==
    /\ data_loaded
    /\ out.body
    /\ out.raised_at = 0
    /\ unchecked1 # {}
    /\ ~ include_special
    /\ Len(df.rows) = 2

----------------------------------------------------------------------------
(* The filters of tab 2 and the metrics of tab 3 *)

\* a filter of tab 2 is changed in this step
Tab2FilterChanges ==
    unchecked2' # unchecked2 \/ include_special' # include_special

\* C19: the occupancy analysis of tab 3 is computed from the table as
\* filtered by tab 2 (its College checkboxes and its empty-time checkbox),
\* and reports no data when no College is checked there; the other metrics
\* of tab 3 (room metrics, rooms and classes per building, most used
\* rooms) are computed from the whole table, so a change of a tab-2 filter
\* leaves them as they were.
C19_OccupancyFollowsTab2 ==
    /\ [](notna(out.tab2_filtered_df) =>
             /\ out.occupancy = occupancy(df, Val(out.tab2_filtered_df))
             /\ Val(out.tab2_filtered_df) = tab2_filtered_df(df, unchecked2, include_special)
             /\ NoCollegeInTab2 => out.occupancy = Null
             /\ out.room_metrics = room_metrics(df)
             /\ out.building_room_count = building_room_count(df)
             /\ out.room_usage = room_usage(df, sort_kind)
             /\ out.building_class_count = building_class_count(df))
    /\ [][(out.body /\ Tab2FilterChanges) =>
             /\ out'.room_metrics = out.room_metrics
             /\ out'.building_room_count = out.building_room_count
             /\ out'.room_usage = out.room_usage
             /\ out'.building_class_count = out.building_class_count]_vars

\* tab 1 shows one College and tab 2 the other: the occupancy is that of
\* tab 2's rows, not that of tab 1's rows nor that of the whole table
C19_Witness ==
    /\ notna(out.occupancy)
    /\ notna(out.room_metrics)
    /\ Val(out.filtered_df) # Val(out.tab2_filtered_df)
    /\ out.occupancy = occupancy(df, Val(out.tab2_filtered_df))
    /\ out.occupancy # occupancy(df, Val(out.filtered_df))
    /\ out.occupancy # occupancy(df, Labels(df))

----------------------------------------------------------------------------
(* The College filter *)

\* the Colleges whose checkbox is checked, among those a checkbox is drawn
\* for
Checked(unchecked) ==
    {Val(df.rows[i]["College"]) :
        i \in {j \in DOMAIN df.rows : notna(df.rows[j]["College"])}} \ unchecked

\* the rows a College filter keeps: with a College column those whose
\* College is checked, without one all
KeptRows(unchecked) ==
    IF "College" \in df.columns
    THEN {i \in DOMAIN df.rows :
            /\ notna(df.rows[i]["College"])
            /\ Val(df.rows[i]["College"]) \in Checked(unchecked)}
    ELSE DOMAIN df.rows

\* C20: with a College column the filter of tab 1 and the College filter of
\* tab 2 keep exactly the rows whose College is a checked value, so a row
\* without College is in no filtered view, even with every checkbox
\* checked; without a College column the filtered table is the whole table.
C20_CollegeFilter ==
    /\ notna(out.filtered_df) =>
          /\ Range(Val(out.filtered_df)) = KeptRows(unchecked1)
          /\ Len(Val(out.filtered_df)) = Cardinality(KeptRows(unchecked1))
    /\ notna(out.tab2_filtered_df) =>
          /\ include_special =>
                /\ Range(Val(out.tab2_filtered_df)) = KeptRows(unchecked2)
                /\ Len(Val(out.tab2_filtered_df)) = Cardinality(KeptRows(unchecked2))
          /\ Range(Val(out.tab2_filtered_df)) \subseteq KeptRows(unchecked2)

\* every checkbox is checked and the row without College is in neither
\* filtered table
C20_Witness ==
    /\ out.body
    /\ out.raised_at = 0
    /\ "College" \in df.columns
    /\ unchecked1 = {}
    /\ unchecked2 = {}
    /\ include_special
    /\ Len(df.rows) = 2
    /\ isna(df.rows[1]["College"])
    /\ out.filtered_df = Some(<<2>>)
    /\ out.tab2_filtered_df = Some(<<2>>)

\* a sheet without a College column: the filtered table is the whole table
C20_WholeTable ==
    /\ out.body
    /\ "College" \notin df.columns
    /\ Len(df.rows) = 2
    /\ out.filtered_df = Some(<<1, 2>>)

----------------------------------------------------------------------------
(* Level counts under the filters *)

MaxLevelFilterRows == 2

\* rows of either College or none, of a Code of every level; the
\* undergraduate Code is one section and the others another, the rows of
\* GEN have the empty time and the graduate Code two credits
LevelFilterRows ==
    {With(BaseRow, [c \in {"College", "Code", "Index", "Time", "KIMEP Credit"} |->
                       CASE c = "College" -> college
                         [] c = "Code" -> code
                         [] c = "Index" -> Some(IF code = Some(ACC101) THEN 1 ELSE 2)
                         [] c = "Time" ->
                                Some(IF college = Some(GEN) THEN EmptyTime ELSE NineToTen)
                         [] OTHER -> Some(IF code = Some(PSY502) THEN 2 ELSE 3)]) :
        college \in {Null, Some(BCB), Some(GEN)},
        code \in {Some(ACC101), Some(PSY502), Some(FND005)}}

LevelFilterFiles == Sheets(AllColumns, LevelFilterRows, MaxLevelFilterRows)

NextLevelFilter ==
    \/ NoFile
    \/ Load(LevelFilterFiles)
    \/ FirstPass
    \/ Refresh
    \/ ClickCollege1
    \/ ClickCredit
    \/ ClickCollege2
    \/ ClickEmptyTime

SpecLevelFilter == InitOn({"stable"}) /\ [][NextLevelFilter]_vars

\* C21: the level counts of tab 1 (Total, Undergraduate, Graduate,
\* Foundation) are those of the whole loaded table, whatever is selected:
\* every pass shows the counts of all sections of the stored table, and a
\* pass after a change of a College, credit or empty-time filter shows the
\* counts the pass before it showed, also with no College selected.
C21_LevelCountsIgnoreFilters ==
    /\ [](out.body =>
             /\ notna(out.level)
             /\ LevelCounts.foundation_count = Cardinality(SectionsOf("Foundation"))
             /\ LevelCounts.undergrad_count_new = Cardinality(SectionsOf("Undergraduate"))
             /\ LevelCounts.master_count = Cardinality(SectionsOf("Graduate"))
             /\ LevelCounts.total_courses_count
                   = Cardinality(Sections \ SectionsOf("Unknown")))
    /\ [][out.body => out'.level = out.level]_vars

\* no College is selected in tab 1, the credit filter and the empty-time
\* filter are set, and the counts are those of the two sections loaded
C21_Witness ==
    /\ NoCollegeInTab1
    /\ out.filtered_df = Some(<<>>)
    /\ credit_filter = "2 Credits"
    /\ ~ include_special
    /\ unchecked2 # {}
    /\ Len(df.rows) = 2
    /\ LevelCounts.total_courses_count = 2
    /\ LevelCounts.undergrad_count_new = 1
    /\ LevelCounts.master_count = 1

====
